---- MODULE Spec2Model ----
(***************************************************************************)
(* Daily "stroke bites" card generation and caching of the strokecovery    *)
(* backend: server/app/api/stroke_bites.py (request handlers),             *)
(* server/app/services/bite_generator.py (LLM call, card-graph validator,  *)
(* colour assignment, orchestrator), server/app/services/fallback_bites.py *)
(* (static card set), server/app/schemas/stroke_bite.py (response schema)  *)
(* and server/app/models/stroke_bite.py (the stroke_bites table).          *)
(***************************************************************************)
EXTENDS Integers, Sequences, FiniteSets, TLC

(***************************************************************************)
(* Bounds of the model.                                                    *)
(***************************************************************************)
\* number of POST /generate requests in flight
NumRequests == 2
\* the calendar advances from day 0 to day MaxDay
MaxDay == 1
\* longest card list the language model returns
MaxCards == 2

Requests == 1..NumRequests
Patients == {"p1", "p2"}

(***************************************************************************)
(* JSON values.  A key that is absent from an object is Missing, a JSON    *)
(* null (Python None) is JNull, "" is the empty string.  dict.get(key)     *)
(* turns Missing into None.                                                *)
(***************************************************************************)
Missing == "<missing>"
JNull == "<null>"

\* Python truthiness of a JSON scalar read with dict.get; "" stands for
\* every falsy value that is not null
Truthy(v) == v \notin {Missing, JNull, ""}

\* the options value of a card: null/absent, a list of options, or a
\* non-empty scalar (a string, say) where a list was expected
NoOptions == [kind |-> "null", items |-> <<>>]
OptionList(items) == [kind |-> "list", items |-> items]
ScalarOptions == [kind |-> "scalar", items |-> <<>>]

\* one option of a qa card; obj = FALSE is a JSON value that is no object
Option(next) == [obj |-> TRUE, key |-> "a", label |-> "Yes", next_card_id |-> next]
ScalarOption == [obj |-> FALSE, key |-> Missing, label |-> Missing, next_card_id |-> Missing]

\* one card; obj = FALSE is a JSON value that is no object
Card(id, type, body, next, options) ==
    [obj |-> TRUE, id |-> id, type |-> type, body |-> body,
     background_color |-> Missing, source_insight_id |-> JNull,
     options |-> options, next_card_id |-> next]
ScalarCard ==
    [obj |-> FALSE, id |-> Missing, type |-> Missing, body |-> Missing,
     background_color |-> Missing, source_insight_id |-> Missing,
     options |-> NoOptions, next_card_id |-> Missing]

(***************************************************************************)
(* fallback_bites.get_fallback_bites: the static card set.                 *)
(***************************************************************************)
\* mutant: the cards carry no colour of their own
FallbackCard_uncoloured(id, type, color, next) ==
    [obj |-> TRUE, id |-> id, type |-> type, body |-> "text",
     background_color |-> Missing, source_insight_id |-> JNull,
     options |-> NoOptions, next_card_id |-> next]

FallbackCard(id, type, color, next) ==
    [obj |-> TRUE, id |-> id, type |-> type, body |-> "text",
     background_color |-> color, source_insight_id |-> JNull,
     options |-> NoOptions, next_card_id |-> next]

FallbackTotalCards == 8
FallbackSequenceLength == 8

get_fallback_bites ==
    [cards |-> << FallbackCard("f1", "welcome", "#0D9488", "f2"),
                  FallbackCard("f2", "motivation", "#059669", "f3"),
                  FallbackCard("f3", "tip", "#2563EB", "f4"),
                  FallbackCard("f4", "motivation", "#7C3AED", "f5"),
                  FallbackCard("f5", "tip", "#EC4899", "f6"),
                  FallbackCard("f6", "motivation", "#EA580C", "f7"),
                  FallbackCard("f7", "tip", "#2563EB", "f8"),
                  FallbackCard("f8", "motivation", "#0D9488", JNull) >>,
     start_card_id |-> "f1",
     total_cards |-> FallbackTotalCards,
     card_sequence_length |-> FallbackSequenceLength]

(***************************************************************************)
(* bite_generator.validate_card_graph.  The outcome is "true", "false" or  *)
(* "raise" (KeyError / TypeError / AttributeError on a malformed shape).   *)
(***************************************************************************)
\* {card['id'] for card in cards_data} raises on a card that is no object
\* or has no id key
CardIdsRaises(cards) ==
    \E i \in 1..Len(cards) : ~cards[i].obj \/ cards[i].id = Missing

CardIds(cards) == {cards[i].id : i \in 1..Len(cards)}

\* the inner loop over card['options'], from option j on
RECURSIVE CheckOptions(_, _, _)
CheckOptions(items, ids, j) ==
    IF j > Len(items) THEN "true"
    ELSE IF ~items[j].obj THEN "raise"
    ELSE IF Truthy(items[j].next_card_id) /\ items[j].next_card_id \notin ids
         THEN "false"
    ELSE CheckOptions(items, ids, j + 1)

\* mutant: the options of a card are never looked at
CheckCardOptions_skipped(options, ids) == "true"

\* if card.get('options'): for option in card['options']: ...
CheckCardOptions(options, ids) ==
    IF options.kind = "null" THEN "true"
    ELSE IF options.kind = "scalar" THEN "raise"
    ELSE CheckOptions(options.items, ids, 1)

\* the loop over cards_data, from card i on
RECURSIVE CheckCards(_, _, _)
CheckCards(cards, ids, i) ==
    IF i > Len(cards) THEN "true"
    ELSE IF Truthy(cards[i].next_card_id) /\ cards[i].next_card_id \notin ids
         THEN "false"
    ELSE LET o == CheckCardOptions(cards[i].options, ids)
         IN  IF o # "true" THEN o ELSE CheckCards(cards, ids, i + 1)

\* mutant: the check that start_id is a card id is left out
validate_card_graph_no_start(cards_data, start_id) ==
    IF CardIdsRaises(cards_data) THEN "raise"
    ELSE CheckCards(cards_data, CardIds(cards_data), 1)

validate_card_graph(cards_data, start_id) ==
    IF CardIdsRaises(cards_data) THEN "raise"
    ELSE IF start_id \notin CardIds(cards_data) THEN "false"
    ELSE CheckCards(cards_data, CardIds(cards_data), 1)

(***************************************************************************)
(* bite_generator.assign_card_colors                                       *)
(***************************************************************************)
DefaultColor == "#0D9488"

COLOR_PALETTE(card_type) ==
    CASE card_type = "welcome" -> "#0D9488"
      [] card_type = "research_fact" -> "#3B82F6"
      [] card_type = "motivation" -> "#10B981"
      [] card_type = "qa" -> "#8B5CF6"
      [] card_type = "conditional_response" -> "#F59E0B"
      [] card_type = "tip" -> "#06B6D4"
      [] OTHER -> DefaultColor

\* mutant: a colour the card came with is kept
CardColor_kept(card) ==
    IF Truthy(card.background_color) THEN card.background_color
    ELSE COLOR_PALETTE(IF card.type = Missing THEN "motivation" ELSE card.type)

\* card.get('type', 'motivation'): only an absent key takes the default
CardColor(card) ==
    COLOR_PALETTE(IF card.type = Missing THEN "motivation" ELSE card.type)

assign_card_colors(cards_data) ==
    [i \in 1..Len(cards_data) |->
        [cards_data[i] EXCEPT !.background_color = CardColor(cards_data[i])]]

(***************************************************************************)
(* The language model's reply.  error = TRUE is a provider error raised by *)
(* chat.completions.create.  Otherwise the reply text is an optional       *)
(* opening code fence, a document and an optional closing code fence.  A   *)
(* document is garbage (no JSON), a JSON value that is no object, or an    *)
(* object with the keys cards, start_card_id and card_sequence_length.     *)
(***************************************************************************)
\* the value under the key "cards"
CardsMissing == [kind |-> "missing", items |-> <<>>]
CardsNull == [kind |-> "null", items |-> <<>>]
CardsNumber == [kind |-> "number", items |-> <<>>]
CardsString == [kind |-> "string", items |-> <<>>]
CardList(items) == [kind |-> "list", items |-> items]

GarbageDoc ==
    [kind |-> "garbage", cards |-> CardsMissing, start_card_id |-> Missing,
     has_sequence_length |-> FALSE, card_sequence_length |-> 0]
NonObjectDoc ==
    [kind |-> "nonobject", cards |-> CardsMissing, start_card_id |-> Missing,
     has_sequence_length |-> FALSE, card_sequence_length |-> 0]
ObjectDoc(cards, start) ==
    [kind |-> "object", cards |-> cards, start_card_id |-> start,
     has_sequence_length |-> FALSE, card_sequence_length |-> 0]
ObjectDocLen(cards, start, n) ==
    [kind |-> "object", cards |-> cards, start_card_id |-> start,
     has_sequence_length |-> TRUE, card_sequence_length |-> n]

ProviderError == [error |-> TRUE, open |-> "", close |-> FALSE, doc |-> GarbageDoc]
Reply(open, doc, close) == [error |-> FALSE, open |-> open, close |-> close, doc |-> doc]

(***************************************************************************)
(* bite_generator.call_llm: strip the code fence, parse the JSON.          *)
(***************************************************************************)
\* content.startswith(three backquotes): both re.sub calls run; the first removes the
\* opening fence (with an optional "json"), the second a closing fence.
\* Without an opening fence nothing is stripped and a closing fence stays.
FenceLeft(reply) == reply.open = "" /\ reply.close

\* TRUE when call_llm raises: provider error, or json.loads rejects the text
call_llm_raises(reply) ==
    reply.error \/ FenceLeft(reply) \/ reply.doc.kind = "garbage"

\* the parsed document call_llm returns when it does not raise
call_llm(reply) == reply.doc

(***************************************************************************)
(* bite_generator.generate_bites, from the call of the language model on.  *)
(* The outcome records whether an exception left the function, the steps   *)
(* the function ran, and the returned dictionary.                          *)
(***************************************************************************)
DefaultStartId == "c1"
DefaultSequenceLength == 8

NoResult ==
    [cards |-> <<>>, start_card_id |-> Missing, total_cards |-> 0,
     card_sequence_length |-> 0]

Returned(trace, result) == [raised |-> FALSE, trace |-> trace, result |-> result]
Raised(trace) == [raised |-> TRUE, trace |-> trace, result |-> NoResult]

\* line 338, inside the try: len(result.get('cards', [])) raises when the
\* reply is no object, or cards is null or a number
LogLineRaises(doc) ==
    doc.kind # "object" \/ doc.cards.kind \in {"null", "number"}

\* result.get('cards', []); iterating a string yields its characters, which
\* are no objects
CardsData(doc) ==
    IF doc.cards.kind = "list" THEN doc.cards.items
    ELSE IF doc.cards.kind = "string" THEN << ScalarCard >>
    ELSE << >>

\* result.get('start_card_id', 'c1')
StartId(doc) ==
    IF doc.start_card_id = Missing THEN DefaultStartId ELSE doc.start_card_id

\* result.get('card_sequence_length', 8)
SequenceLength(doc) ==
    IF doc.has_sequence_length THEN doc.card_sequence_length
    ELSE DefaultSequenceLength

\* mutant: the validator's verdict is ignored unless it raises
ValidateAndReturn_ungated(doc) ==
    LET cards_data == CardsData(doc)
    IN  IF validate_card_graph(cards_data, StartId(doc)) = "raise"
        THEN Raised(<< "call_llm", "validate_card_graph" >>)
        ELSE Returned(<< "call_llm", "validate_card_graph", "assign_card_colors" >>,
                      [cards |-> assign_card_colors(cards_data),
                       start_card_id |-> StartId(doc),
                       total_cards |-> Len(cards_data),
                       card_sequence_length |-> SequenceLength(doc)])

\* lines 346-364: validate, then fall back or colour and return
ValidateAndReturn(doc) ==
    LET cards_data == CardsData(doc)
        start_id == StartId(doc)
        valid == validate_card_graph(cards_data, start_id)
    IN  IF valid = "raise"
        THEN Raised(<< "call_llm", "validate_card_graph" >>)
        ELSE IF valid = "false"
        THEN Returned(<< "call_llm", "validate_card_graph", "get_fallback_bites" >>,
                      get_fallback_bites)
        ELSE Returned(<< "call_llm", "validate_card_graph", "assign_card_colors" >>,
                      [cards |-> assign_card_colors(cards_data),
                       start_card_id |-> start_id,
                       total_cards |-> Len(cards_data),
                       card_sequence_length |-> SequenceLength(doc)])

\* mutant: the call is not wrapped in try/except, so its exception leaves
\* generate_bites
generate_bites_uncaught(reply) ==
    IF call_llm_raises(reply) THEN Raised(<< "call_llm" >>)
    ELSE IF LogLineRaises(call_llm(reply))
    THEN Returned(<< "call_llm", "get_fallback_bites" >>, get_fallback_bites)
    ELSE ValidateAndReturn(call_llm(reply))

\* lines 334-344: the call and its except clause
generate_bites(reply) ==
    IF call_llm_raises(reply) \/ LogLineRaises(call_llm(reply))
    THEN Returned(<< "call_llm", "get_fallback_bites" >>, get_fallback_bites)
    ELSE ValidateAndReturn(call_llm(reply))

(***************************************************************************)
(* schemas/stroke_bite.py: the BiteCard and BiteOption models.                 *)
(***************************************************************************)
\* a required str field rejects an absent key and a null
RequiredStr(v) == v \notin {Missing, JNull}

BiteOptionOk(option) ==
    /\ option.obj
    /\ RequiredStr(option.key)
    /\ RequiredStr(option.label)
    /\ RequiredStr(option.next_card_id)

\* TRUE when the BiteCard constructor accepts the card dictionary
BiteCardOk(card) ==
    /\ card.obj
    /\ RequiredStr(card.id)
    /\ RequiredStr(card.type)
    /\ RequiredStr(card.body)
    /\ card.options.kind # "scalar"
    /\ \A j \in 1..Len(card.options.items) : BiteOptionOk(card.options.items[j])

\* an Optional field that is absent is rendered as null; an absent
\* background_color takes the schema default
Optional(v) == IF v = Missing THEN JNull ELSE v

BiteCard(card) ==
    [card EXCEPT !.next_card_id = Optional(card.next_card_id),
                 !.source_insight_id = Optional(card.source_insight_id),
                 !.background_color =
                     IF card.background_color = Missing THEN DefaultColor
                     ELSE card.background_color]

\* the list of BiteCard objects built from cards_data
BiteCardsOk(cards_data) == \A i \in 1..Len(cards_data) : BiteCardOk(cards_data[i])
BiteCards(cards_data) == [i \in 1..Len(cards_data) |-> BiteCard(cards_data[i])]

(***************************************************************************)
(* The replies the language model is drawn from.                           *)
(***************************************************************************)
\* linear cards: every next_card_id shape, and an absent and a null id
PlainCards ==
    { Card(id, "motivation", "text", next, NoOptions) :
        id \in {"c1", "c2"}, next \in {JNull, "", "c1", "c2", "c9"} }
    \cup { Card(id, "motivation", "text", JNull, NoOptions) : id \in {Missing, JNull} }

\* option lists of a qa card
OptionLists ==
    { OptionList(<< Option(n) >>) : n \in {"c1", "c2", "c9", "", JNull} }
    \cup { OptionList(<< >>), OptionList(<< ScalarOption >>), ScalarOptions,
           OptionList(<< Option("c2"), Option("c9") >>),
           OptionList(<< Option("c9"), ScalarOption >>),
           OptionList(<< ScalarOption, Option("c9") >>) }

QaCards ==
    { Card("c1", "qa", "text", JNull, opts) : opts \in OptionLists }

\* cards that differ in the fields the response schema and the palette read
SchemaCards ==
    { Card("c1", type, "text", JNull, NoOptions) :
        type \in {"welcome", "research_fact", Missing, JNull, "quiz"} }
    \cup { Card("c1", "tip", Missing, JNull, NoOptions) }

CardSet == PlainCards \cup QaCards \cup SchemaCards \cup {ScalarCard}

CardLists == UNION { [1..n -> CardSet] : n \in 0..MaxCards }

ObjectDocs ==
    { ObjectDoc(CardList(cards), start) :
        cards \in CardLists, start \in {Missing, JNull} }
    \cup { ObjectDoc(CardList(<< card >>), "c2") : card \in CardSet }
    \cup { ObjectDoc(cards, Missing) :
             cards \in {CardsMissing, CardsNull, CardsNumber, CardsString} }
    \cup { ObjectDocLen(CardList(<< Card("c1", "welcome", "text", JNull, NoOptions) >>),
                        "c1", 9) }

\* a well-formed two-card chain, used to try every fence shape
ChainDoc ==
    ObjectDoc(CardList(<< Card("c1", "welcome", "text", "c2", NoOptions),
                          Card("c2", "tip", "text", JNull, NoOptions) >>), "c1")

\* no opening fence, three backquotes, three backquotes followed by json
Fences == {"", "fence", "fence_json"}

AllReplies ==
    {ProviderError}
    \cup { Reply(open, doc, close) :
             open \in Fences, doc \in {GarbageDoc, NonObjectDoc, ChainDoc},
             close \in BOOLEAN }
    \cup { Reply("", doc, FALSE) : doc \in ObjectDocs }

\* the replies tried when several requests race: one of each outcome
QaDoc ==
    ObjectDoc(CardList(<< Card("c1", "qa", "text", JNull,
                                OptionList(<< Option("c2"), Option("c1") >>)),
                          Card("c2", "conditional_response", "text", JNull,
                               NoOptions) >>), Missing)
NoIdDoc ==
    ObjectDoc(CardList(<< Card(Missing, "welcome", "text", JNull, NoOptions) >>), Missing)
NoBodyDoc ==
    ObjectDoc(CardList(<< Card("c1", "qa", Missing, JNull,
                                OptionList(<< Option("c1") >>)) >>), "c1")
NullStartDoc ==
    ObjectDoc(CardList(<< Card(JNull, "welcome", "text", JNull, NoOptions) >>), JNull)

RaceReplies ==
    { ProviderError,
      Reply("", QaDoc, FALSE),
      Reply("", NoIdDoc, FALSE),
      Reply("", NoBodyDoc, FALSE),
      Reply("", NullStartDoc, FALSE) }

(***************************************************************************)
(* State.                                                                  *)
(***************************************************************************)
VARIABLES
    today,          \* date.today()
    stroke_bites,   \* the rows of the stroke_bites table
    pc,             \* where each request is in generate_todays_bites
    local,          \* each request's profile, today, reply and result
    response,       \* what each request answered
    fi_pc,          \* where the call of fetch_insights is
    profile,        \* the patient profile fetch_insights was given
    exclude_ids,    \* the ids fetch_insights must not return
    insights,       \* the local list fetch_insights builds
    calls,          \* the remote calls fetch_insights has made, in order
    fetched,        \* what the two steps of fetch_insights got back
    returned,       \* what fetch_insights returned
    stroke_date,    \* the argument of get_recovery_phase
    phase,          \* what get_recovery_phase returned
    stroke_bite_answers,  \* the rows of the stroke_bite_answers table
    preferences,    \* what get_past_answers returned
    cards_data,     \* the argument of assign_card_colors
    colored,        \* what assign_card_colors returned
    medicine_info,  \* the rows of the medicine_info table
    med_pc,         \* where each lookup is in get_or_create_medicine_info
    med_local,      \* each lookup's name, record and language-model reply
    med_result,     \* what each lookup returned
    search,         \* the query and the result of search_medicine_names
    paper_store,    \* the papers, paper_sections and insights tables
    paper_run,      \* where the run of process_paper is, and its locals
    save,           \* the call of save_bite_answers and its answer
    mood_entries,   \* the rows of the mood_entries table
    mood_req,       \* each mood request: where it is, its input, its answer
    game_results,   \* the dates on which the patient played
    streak          \* what calculate_streak returned

bite_vars == << today, stroke_bites, pc, local, response >>
insight_vars == << fi_pc, profile, exclude_ids, insights, calls, fetched, returned >>
phase_vars == << stroke_date, phase >>
answer_vars == << stroke_bite_answers, preferences >>
color_vars == << cards_data, colored >>
medicine_vars == << medicine_info, med_pc, med_local, med_result >>
more_vars == << search, paper_store, paper_run, save, mood_entries, mood_req,
               game_results, streak >>
not_insights == << phase_vars, answer_vars, color_vars, medicine_vars, more_vars >>
other_vars == << insight_vars, phase_vars, answer_vars, color_vars, medicine_vars,
                more_vars >>

vars == << bite_vars, other_vars >>

\* profile.current_therapies: NULL, or an array of therapy names
NoTherapies == [kind |-> "null", items |-> << >>]
TherapyList(items) == [kind |-> "list", items |-> items]

\* the rows the two store calls replied with, the calls that raised, and the
\* limit the table query was asked with (0: not asked)
NothingFetched == [semantic |-> << >>, random |-> << >>, errors |-> {}, limit |-> 0]
NotReturned == [raised |-> FALSE, value |-> << >>]

\* no call of fetch_insights is under way
InsightsIdle ==
    /\ fi_pc = "idle"
    /\ profile = [current_therapies |-> NoTherapies]
    /\ exclude_ids = {}
    /\ insights = << >>
    /\ calls = << >>
    /\ fetched = NothingFetched
    /\ returned = NotReturned

\* profile.stroke_date: NULL, or a calendar day
NoDate == [known |-> FALSE, day |-> 0]
Date(d) == [known |-> TRUE, day |-> d]

\* get_recovery_phase has not been called
PhaseIdle ==
    /\ stroke_date = NoDate
    /\ phase = "not run"

NoPreferences == [run |-> FALSE, map |-> << >>]

\* get_past_answers has not been called
AnswersIdle ==
    /\ stroke_bite_answers = {}
    /\ preferences = NoPreferences

NotColored == [run |-> FALSE, cards |-> << >>]

\* assign_card_colors has not been called
ColorsIdle ==
    /\ cards_data = << >>
    /\ colored = NotColored

\* no lookup of medicine information is under way
MedicineIdle ==
    /\ medicine_info = {}
    /\ med_pc = << >>
    /\ med_local = << >>
    /\ med_result = << >>

\* search_medicine_names has not been called
NoSearch == [run |-> FALSE, query |-> << >>, rows |-> {}]
SearchIdle == search = NoSearch

\* process_paper is not running and the store is empty
EmptyStore == [papers |-> {}, sections |-> {}, insights |-> {}]
\* pc: the step of the run; paper: the hash of the file; extracted: the
\* insights of the extraction; next: the place in the loop; result: what
\* the last run returned; runs: the runs started; stored_with: for each
\* paper row, the insights extracted by the run that inserted it
NoRun ==
    [pc |-> "idle", paper |-> 0, extracted |-> << >>, next |-> 0, result |-> "none",
     runs |-> 0, stored_with |-> << >>]
PapersIdle ==
    /\ paper_store = EmptyStore
    /\ paper_run = NoRun

\* save_bite_answers has not been called
NoSave == [pc |-> "idle", caller |-> "none", bite_id |-> 0, answers |-> << >>,
           status |-> 0, id |-> 0, answers_count |-> 0]
SaveIdle == save = NoSave

\* no mood request is under way
MoodIdle ==
    /\ mood_entries = {}
    /\ mood_req = << >>

\* calculate_streak has not been called
NoStreak == [run |-> FALSE, streak |-> 0, has_last |-> FALSE, last_played |-> 0]
StreakIdle ==
    /\ game_results = {}
    /\ streak = NoStreak

MoreIdle == SearchIdle /\ PapersIdle /\ SaveIdle /\ MoodIdle /\ StreakIdle

OthersIdle ==
    InsightsIdle /\ PhaseIdle /\ AnswersIdle /\ ColorsIdle /\ MedicineIdle /\ MoreIdle

\* get_user_and_profile fails with 401 or 404
AuthFailures == {"bad_token", "no_user", "no_profile"}

NoReply == Reply("", GarbageDoc, FALSE)
NotRun == Returned(<< >>, NoResult)
NoLocal == [patient |-> "none", today |-> 0, reply |-> NoReply, outcome |-> NotRun]

NoResponse ==
    [status |-> 0, detail |-> "", id |-> 0, generated_date |-> 0, cards |-> << >>,
     start_card_id |-> Missing, total_cards |-> 0, card_sequence_length |-> 0]

\* an HTTPException, or the framework's answer to an unhandled exception
Error(status, detail) == [NoResponse EXCEPT !.status = status, !.detail = detail]

\* StrokeBiteResponse built from a row and a card list
Created(row, cards) ==
    [status |-> 201, detail |-> "", id |-> row.id,
     generated_date |-> row.generated_date, cards |-> cards,
     start_card_id |-> row.start_card_id, total_cards |-> Len(cards),
     card_sequence_length |-> row.card_sequence_length]

\* lines 111-121 and 154-164: answer with a stored row; building a BiteCard
\* from a stored card that does not fit the schema raises ValidationError
RowResponse(row) ==
    IF BiteCardsOk(row.cards_json.cards)
    THEN Created(row, BiteCards(row.cards_json.cards))
    ELSE Error(500, "Internal Server Error")

\* db.query(StrokeBite).filter(patient_id == p, generated_date == d)
BitesOf(p, d) ==
    { b \in stroke_bites : b.patient_id = p /\ b.generated_date = d }

\* lines 133-139: the new row; the id column defaults to a fresh uuid4,
\* modelled by the number of the request that inserts it
NewBite(r) ==
    [id |-> r, patient_id |-> local[r].patient, generated_date |-> local[r].today,
     cards_json |-> local[r].outcome.result,
     start_card_id |-> local[r].outcome.result.start_card_id,
     card_sequence_length |-> local[r].outcome.result.card_sequence_length]

\* the constraints the stroke_bites table declares (models/stroke_bite.py):
\* a primary key on id and NOT NULL columns; a NOT NULL violation is the
\* IntegrityError the commit can raise
IntegrityError(row) ==
    \/ row.start_card_id = JNull
    \/ \E b \in stroke_bites : b.id = row.id

BitesInit ==
    /\ today = 0
    /\ stroke_bites = {}
    /\ pc = [r \in Requests |-> "start"]
    /\ local = [r \in Requests |-> NoLocal]
    /\ response = [r \in Requests |-> NoResponse]

Init == BitesInit /\ OthersIdle

\* lines 100-121: authenticate, look for today's row, answer with it
Start(r) ==
    /\ pc[r] = "start"
    /\ \E who \in Patients \cup AuthFailures :
         IF who \in AuthFailures
         THEN /\ response' = [response EXCEPT ![r] =
                    IF who = "bad_token" THEN Error(401, "Invalid or expired token")
                    ELSE IF who = "no_user" THEN Error(404, "User not found")
                    ELSE Error(404, "Patient profile not found")]
              /\ pc' = [pc EXCEPT ![r] = "done"]
              /\ local' = local
         ELSE /\ local' = [local EXCEPT ![r].patient = who, ![r].today = today]
              /\ IF BitesOf(who, today) # {}
                 THEN /\ \E existing \in BitesOf(who, today) :
                            response' = [response EXCEPT ![r] = RowResponse(existing)]
                      /\ pc' = [pc EXCEPT ![r] = "done"]
                 ELSE /\ pc' = [pc EXCEPT ![r] = "generate"]
                      /\ response' = response
    /\ UNCHANGED << today, stroke_bites, other_vars >>

\* lines 123-130: run the generator; any exception becomes a 500 whose
\* detail carries the exception text
Generate(r, replies) ==
    /\ pc[r] = "generate"
    /\ \E reply \in replies :
         LET outcome == generate_bites(reply)
         IN  /\ local' = [local EXCEPT ![r].reply = reply, ![r].outcome = outcome]
             /\ IF outcome.raised
                THEN /\ response' = [response EXCEPT ![r] =
                           Error(500, "Failed to generate bites: exception text")]
                     /\ pc' = [pc EXCEPT ![r] = "done"]
                ELSE /\ pc' = [pc EXCEPT ![r] = "insert"]
                     /\ response' = response
    /\ UNCHANGED << today, stroke_bites, other_vars >>

\* lines 132-144 and 171-181: add, commit, refresh, answer with the new row
Insert(r) ==
    /\ pc[r] = "insert"
    /\ IF IntegrityError(NewBite(r))
       THEN /\ pc' = [pc EXCEPT ![r] = "rollback"]
            /\ UNCHANGED << stroke_bites, response >>
       ELSE /\ stroke_bites' = stroke_bites \cup {NewBite(r)}
            /\ response' = [response EXCEPT ![r] =
                   IF BiteCardsOk(local[r].outcome.result.cards)
                   THEN Created(NewBite(r), BiteCards(local[r].outcome.result.cards))
                   ELSE Error(500, "Internal Server Error")]
            /\ pc' = [pc EXCEPT ![r] = "done"]
    /\ UNCHANGED << today, local, other_vars >>

\* mutant: when no row is found the generated content is answered unsaved
Refetch_masking(r) ==
    /\ pc[r] = "rollback"
    /\ IF BitesOf(local[r].patient, local[r].today) # {}
       THEN \E existing \in BitesOf(local[r].patient, local[r].today) :
                response' = [response EXCEPT ![r] = RowResponse(existing)]
       ELSE response' = [response EXCEPT ![r] =
                Created(NewBite(r), BiteCards(local[r].outcome.result.cards))]
    /\ pc' = [pc EXCEPT ![r] = "done"]
    /\ UNCHANGED << today, stroke_bites, local, other_vars >>

\* lines 145-169: roll back, read again, answer with the row found
Refetch(r) ==
    /\ pc[r] = "rollback"
    /\ IF BitesOf(local[r].patient, local[r].today) # {}
       THEN \E existing \in BitesOf(local[r].patient, local[r].today) :
                response' = [response EXCEPT ![r] = RowResponse(existing)]
       ELSE response' = [response EXCEPT ![r] =
                Error(500, "Failed to store generated bites")]
    /\ pc' = [pc EXCEPT ![r] = "done"]
    /\ UNCHANGED << today, stroke_bites, local, other_vars >>

\* midnight passes
Tick ==
    /\ today < MaxDay
    /\ today' = today + 1
    /\ UNCHANGED << stroke_bites, pc, local, response, other_vars >>

\* concurrent requests
Next ==
    \/ Tick
    \/ \E r \in Requests :
         Start(r) \/ Generate(r, RaceReplies) \/ Insert(r) \/ Refetch(r)

Spec == Init /\ [][Next]_vars

\* one request, every reply of the bounded reply set
NextOne ==
    Start(1) \/ Generate(1, AllReplies) \/ Insert(1) \/ Refetch(1)

SpecOne == Init /\ [][NextOne]_vars

(***************************************************************************)
(* Card graphs: the references of a card set and where they lead.          *)
(***************************************************************************)
\* the next_card_id values of card i: its own and those of its options
NextRefs(cards, i) ==
    {cards[i].next_card_id}
    \cup {cards[i].options.items[j].next_card_id :
            j \in 1..Len(cards[i].options.items)}

\* every reference that is not null, absent or empty names a card of the set
GraphResolves(cards, start) ==
    /\ start \in CardIds(cards)
    /\ \A i \in 1..Len(cards) :
         \A n \in NextRefs(cards, i) : Truthy(n) => n \in CardIds(cards)

\* every reference is null (or absent) or names a card of the set
GraphResolvesStrict(cards, start) ==
    /\ start \in CardIds(cards)
    /\ \A i \in 1..Len(cards) :
         \A n \in NextRefs(cards, i) : n \in {Missing, JNull} \cup CardIds(cards)

\* the ids one step after a card with the given id
Successors(cards, id) ==
    UNION { {n \in NextRefs(cards, i) : Truthy(n)} :
              i \in {k \in 1..Len(cards) : cards[k].id = id} }

\* the ids reached from the ids in frontier, in any number of steps
RECURSIVE ReachFrom(_, _, _)
ReachFrom(cards, frontier, seen) ==
    IF frontier \subseteq seen THEN seen
    ELSE ReachFrom(cards,
                   UNION { Successors(cards, id) : id \in frontier \cup seen },
                   seen \cup frontier)

\* every walk from start ends at a card without a successor
Terminates(cards, start) ==
    LET reached == ReachFrom(cards, {start}, {})
    IN  /\ reached \subseteq CardIds(cards)
        /\ \A id \in reached :
             id \notin ReachFrom(cards, Successors(cards, id), {})

\* the requests whose call of generate_bites returned a card set
Generated == { r \in Requests : local[r].outcome.trace # << >> /\ ~local[r].outcome.raised }

\* the requests of a patient with a profile that have answered
Answered == { r \in Requests : pc[r] = "done" /\ local[r].patient \in Patients }

(***************************************************************************)
(* Claims.                                                                 *)
(***************************************************************************)

\* C1: for every patient and calendar date at most one stroke_bites row
\* exists, after any interleaving of concurrent generate requests.
C1_OneBitePerPatientAndDate ==
    \A b1 \in stroke_bites : \A b2 \in stroke_bites :
        (b1.patient_id = b2.patient_id /\ b1.generated_date = b2.generated_date)
            => b1 = b2

\* C2: a request that finds a row for (patient, today) when it starts
\* answers with that row's id, cards and start_card_id, does not run the
\* generator, inserts nothing; and no step ever changes or removes a stored row.
C2_CachedRowReturnedUnchanged ==
    [][ /\ stroke_bites \subseteq stroke_bites'
        /\ \A r \in Requests :
             ( /\ pc[r] = "start"
               /\ pc'[r] # "start"
               /\ local'[r].patient \in Patients
               /\ BitesOf(local'[r].patient, today) # {} )
             => /\ \E b \in BitesOf(local'[r].patient, today) :
                      response'[r] = Created(b, BiteCards(b.cards_json.cards))
                /\ local'[r].outcome = NotRun
                /\ stroke_bites' = stroke_bites ]_vars

\* C3: two requests for the same patient and date that raced and both
\* answered with a card set answered with the same row id and the same cards.
C3_RacersReturnTheSameRow ==
    \A r1 \in Answered : \A r2 \in Answered :
        ( /\ local[r1].patient = local[r2].patient
          /\ local[r1].today = local[r2].today
          /\ response[r1].status = 201
          /\ response[r2].status = 201 )
        => /\ response[r1].id = response[r2].id
           /\ response[r1].cards = response[r2].cards

\* C4 as stated: in every card set generate_bites returns and in every
\* stored row, start_card_id is a card id and every next_card_id is null
\* or a card id of the same set.
C4_ReferencesNullOrResolve ==
    /\ \A r \in Generated :
         GraphResolvesStrict(local[r].outcome.result.cards,
                             local[r].outcome.result.start_card_id)
    /\ \A b \in stroke_bites :
         GraphResolvesStrict(b.cards_json.cards, b.start_card_id)

\* C4 as amended: in every card set generate_bites returns and in every
\* stored row, start_card_id is a card id and every next_card_id is falsy
\* (null, absent, the empty string) or a card id of the same set; and every stored
\* row is the fallback set or the coloured cards of a reply that passed
\* validate_card_graph.
C4_ReferencesEmptyOrResolve ==
    /\ \A r \in Generated :
         GraphResolves(local[r].outcome.result.cards,
                       local[r].outcome.result.start_card_id)
    /\ \A b \in stroke_bites :
         /\ GraphResolves(b.cards_json.cards, b.start_card_id)
         /\ \/ b.cards_json = get_fallback_bites
            \/ LET doc == local[b.id].reply.doc
               IN  /\ validate_card_graph(CardsData(doc), StartId(doc)) = "true"
                   /\ [i \in 1..Len(b.cards_json.cards) |->
                          [b.cards_json.cards[i] EXCEPT !.background_color = Missing]]
                      = [i \in 1..Len(CardsData(doc)) |->
                          [CardsData(doc)[i] EXCEPT !.background_color = Missing]]

\* C4 witness: a stored row made of the model's own cards, one of which
\* refers to another card
C4_Witness ==
    \E b \in stroke_bites :
        /\ b.cards_json # get_fallback_bites
        /\ \E i \in 1..Len(b.cards_json.cards) :
             \E n \in NextRefs(b.cards_json.cards, i) : Truthy(n)

\* C5: in every card set generate_bites returns and in every stored row,
\* following next_card_id (and any option's next_card_id) from
\* start_card_id reaches a card with no next_card_id; no cycle is reachable.
C5_TraversalTerminates ==
    /\ \A r \in Generated :
         Terminates(local[r].outcome.result.cards,
                    local[r].outcome.result.start_card_id)
    /\ \A b \in stroke_bites : Terminates(b.cards_json.cards, b.start_card_id)

\* C6: every generate request of a patient with a profile answers 201 with
\* a card set whose references resolve, never with an error.
C6_AlwaysSomeValidCardSet ==
    \A r \in Answered :
        /\ response[r].status = 201
        /\ GraphResolves(response[r].cards, response[r].start_card_id)

\* C7: generate_bites never raises, whatever the language model replied.
C7_GenerateBitesNeverRaises ==
    \A r \in Requests : ~local[r].outcome.raised

\* C8: when call_llm raises (provider error, or text that is no JSON after
\* fence stripping), generate_bites returns exactly the static fallback set,
\* having called the model once and run neither the validator nor the
\* colour assignment.
C8_LlmErrorGivesFallback ==
    \A r \in Requests :
        (local[r].outcome.trace # << >> /\ call_llm_raises(local[r].reply))
        => /\ ~local[r].outcome.raised
           /\ local[r].outcome.result = get_fallback_bites
           /\ local[r].outcome.trace = << "call_llm", "get_fallback_bites" >>

\* C8 witness: a reply whose closing fence was not stripped made call_llm
\* raise, and the request went on with the fallback set
C8_Witness ==
    \E r \in Requests :
        /\ local[r].outcome.trace # << >>
        /\ ~local[r].reply.error
        /\ call_llm_raises(local[r].reply)
        /\ local[r].outcome.result = get_fallback_bites

\* C9: when the reply parses and validate_card_graph returns false on its
\* card graph, generate_bites returns exactly the static fallback set.
C9_InvalidGraphGivesFallback ==
    \A r \in Requests :
        LET doc == local[r].reply.doc
        IN  ( /\ local[r].outcome.trace # << >>
              /\ ~call_llm_raises(local[r].reply)
              /\ ~LogLineRaises(doc)
              /\ validate_card_graph(CardsData(doc), StartId(doc)) = "false" )
            => /\ ~local[r].outcome.raised
               /\ local[r].outcome.result = get_fallback_bites

\* C9 witness: a parsed reply with a dangling next_card_id was replaced by
\* the fallback set
C9_Witness ==
    \E r \in Requests :
        LET doc == local[r].reply.doc
        IN  /\ local[r].outcome.trace # << >>
            /\ ~call_llm_raises(local[r].reply)
            /\ doc.cards.kind = "list"
            /\ \E i \in 1..Len(doc.cards.items) : doc.cards.items[i].next_card_id = "c9"
            /\ StartId(doc) \in CardIds(CardsData(doc))
            /\ local[r].outcome.result = get_fallback_bites

\* the card lists on which validate_card_graph cannot raise: every card an
\* object with an id, every options value a list of objects
WellFormed(cards) ==
    \A i \in 1..Len(cards) :
        /\ cards[i].obj
        /\ cards[i].id # Missing
        /\ cards[i].options.kind # "scalar"
        /\ \A j \in 1..Len(cards[i].options.items) : cards[i].options.items[j].obj

\* the requests whose generate_bites call reached validate_card_graph
Validated ==
    { r \in Requests : Len(local[r].outcome.trace) >= 2
                       /\ local[r].outcome.trace[2] = "validate_card_graph" }

FellBack ==
    { r \in Generated :
        local[r].outcome.trace[Len(local[r].outcome.trace)] = "get_fallback_bites" }

\* cards is one chain: distinct ids, each card but the last points to the
\* card after it, the last card's next_card_id is null, no card has options
LinearChain(cards, start) ==
    /\ Len(cards) > 0
    /\ start = cards[1].id
    /\ \A i \in 1..Len(cards) : \A j \in 1..Len(cards) :
          cards[i].id = cards[j].id => i = j
    /\ \A i \in 1..(Len(cards) - 1) : cards[i].next_card_id = cards[i + 1].id
    /\ cards[Len(cards)].next_card_id = JNull
    /\ \A i \in 1..Len(cards) : cards[i].options = NoOptions

\* C11: the card set a request got from get_fallback_bites passes
\* validate_card_graph with its own start_card_id, has exactly 8 cards, each
\* with a background colour, has no qa card and no research_fact card, and is
\* one linear chain from its start card through all 8 cards that ends in the
\* only card whose next_card_id is null.
C11_FallbackIsValidLinearChain ==
    \A r \in FellBack :
        LET set == local[r].outcome.result
        IN  /\ validate_card_graph(set.cards, set.start_card_id) = "true"
            /\ Len(set.cards) = 8
            /\ set.total_cards = 8
            /\ \A i \in 1..Len(set.cards) :
                  /\ Truthy(set.cards[i].background_color)
                  /\ set.cards[i].type \notin {"qa", "research_fact"}
            /\ LinearChain(set.cards, set.start_card_id)
            /\ Terminates(set.cards, set.start_card_id)
            /\ ReachFrom(set.cards, {set.start_card_id}, {}) = CardIds(set.cards)

\* C11 witness: a request fell back to the static set, stored it and
\* answered with its eight cards
C11_Witness ==
    \E r \in FellBack :
        /\ pc[r] = "done"
        /\ response[r].status = 201
        /\ Len(response[r].cards) = 8
        /\ response[r].start_card_id = "f1"
        /\ \E b \in stroke_bites : b.id = r /\ b.cards_json = local[r].outcome.result

\* C12: when the commit of a new row is rejected and the re-read for
\* (patient, today) finds no row, the request answers with a server error
\* that carries no card set; the generated content is not returned unsaved.
C12_ConflictWithoutRowIsServerError ==
    [][ \A r \in Requests :
          ( /\ pc[r] = "rollback"
            /\ pc'[r] = "done"
            /\ BitesOf(local[r].patient, local[r].today) = {} )
          => /\ response'[r].status = 500
             /\ response'[r].cards = << >>
             /\ response'[r].start_card_id = Missing
             /\ stroke_bites' = stroke_bites ]_vars

\* C12 witness: a request generated a non-empty card set, its commit was
\* rejected, no row was found, and it answered 500
C12_Witness ==
    \E r \in Requests :
        /\ pc[r] = "done"
        /\ Len(local[r].outcome.result.cards) > 0
        /\ IntegrityError(NewBite(r))
        /\ BitesOf(local[r].patient, local[r].today) = {}
        /\ response[r] = Error(500, "Failed to store generated bites")

(***************************************************************************)
(* bite_generator.fetch_insights.  The insights table and the              *)
(* match_insights function live in the remote store; a reply of the store  *)
(* is any set of rows up to the limit asked for (which rows match depends  *)
(* on the stroke-type and recovery-phase filters and on the embedding),    *)
(* listed by id.  A row is modelled by its id.                             *)
(***************************************************************************)
\* the rows of the insights table
MaxInsights == 7
\* exclude_ids is drawn from the ids 1..MaxExclude
MaxExclude == 2

InsightIds == 1..MaxInsights

\* "match_count": 5
MatchCount == 5
\* if len(insights) < 5
SupplementBelow == 5
\* needed = 6 - len(insights)
TargetCount == 6
\* return insights[:6]
ReturnLimit == 6

Profiles ==
    { [current_therapies |-> t] :
        t \in {NoTherapies, TherapyList(<< >>), TherapyList(<< "PT" >>)} }

RECURSIVE SortedSeq(_)
SortedSeq(S) ==
    IF S = {} THEN << >>
    ELSE LET m == CHOOSE x \in S : \A y \in S : x <= y
         IN  << m >> \o SortedSeq(S \ {m})

\* the replies the store can give to a query limited to n rows of `rows`
StoreReplies(rows, n) ==
    { SortedSeq(S) : S \in { T \in SUBSET rows : Cardinality(T) <= n } }

Elements(seq) == { seq[i] : i \in 1..Len(seq) }

Reverse(seq) == [i \in 1..Len(seq) |-> seq[Len(seq) + 1 - i]]

\* the replies of match_insights: at most n rows, ranked by similarity to
\* the query, which is any order of the ids (here rising or falling)
RankedReplies(rows, n) ==
    StoreReplies(rows, n) \cup { Reverse(data) : data \in StoreReplies(rows, n) }

\* mutant: the table query is always asked for six rows
Needed_fixed(held) == TargetCount

\* needed = 6 - len(insights)
Needed(held) == TargetCount - Len(held)

Take(seq, n) == SubSeq(seq, 1, IF Len(seq) < n THEN Len(seq) ELSE n)

\* mutant: semantic search is tried for every profile
SemanticAttempted_always(p) == TRUE

\* if profile.current_therapies and len(profile.current_therapies) > 0
SemanticAttempted(p) ==
    p.current_therapies.kind = "list" /\ Len(p.current_therapies.items) > 0

\* mutant: the rows of the semantic reply are kept as they come
KeepNotExcluded_unfiltered(data, excluded) == data

\* [r for r in result.data if r.get('id') not in exclude_ids]
KeepNotExcluded(data, excluded) ==
    LET keep(id) == id \notin excluded
    IN  SelectSeq(data, keep)

\* the rows the table query of step 2 may return: not_.in_ is applied only
\* when exclude_ids is not empty
Selectable(excluded, got) ==
    IF excluded # {} THEN InsightIds \ (excluded \cup Elements(got))
    ELSE InsightIds

InsightsInit ==
    /\ BitesInit
    /\ PhaseIdle /\ AnswersIdle /\ ColorsIdle /\ MedicineIdle /\ MoreIdle
    /\ fi_pc = "start"
    /\ profile \in Profiles
    /\ exclude_ids \in SUBSET (1..MaxExclude)
    /\ insights = << >>
    /\ calls = << >>
    /\ fetched = NothingFetched
    /\ returned = NotReturned

\* lines 54-58: create the client (outside any try), start with no insights
FetchStart ==
    /\ fi_pc = "start"
    /\ \E created \in BOOLEAN :
         IF created
         THEN /\ fi_pc' = IF SemanticAttempted(profile) THEN "embed" ELSE "supplement"
              /\ returned' = returned
         ELSE /\ fi_pc' = "done"
              /\ returned' = [raised |-> TRUE, value |-> << >>]
    /\ UNCHANGED << profile, exclude_ids, insights, calls, fetched, bite_vars, not_insights >>

\* mutant: the embedding call is not inside a try block
Embed_uncaught ==
    /\ fi_pc = "embed"
    /\ calls' = Append(calls, "embeddings.create")
    /\ \E ok \in BOOLEAN :
         IF ok
         THEN /\ fi_pc' = "search"
              /\ UNCHANGED << fetched, returned >>
         ELSE /\ fi_pc' = "done"
              /\ fetched' = [fetched EXCEPT !.errors = @ \cup {"embeddings.create"}]
              /\ returned' = [raised |-> TRUE, value |-> << >>]
    /\ UNCHANGED << profile, exclude_ids, insights, bite_vars, not_insights >>

\* lines 59-78 and 94-95: build the query text and ask for its embedding;
\* an exception is printed and step 2 follows
Embed ==
    /\ fi_pc = "embed"
    /\ calls' = Append(calls, "embeddings.create")
    /\ \E ok \in BOOLEAN :
         IF ok
         THEN /\ fi_pc' = "search"
              /\ fetched' = fetched
         ELSE /\ fi_pc' = "supplement"
              /\ fetched' = [fetched EXCEPT !.errors = @ \cup {"embeddings.create"}]
    /\ UNCHANGED << profile, exclude_ids, insights, returned, bite_vars, not_insights >>

\* lines 80-95: the match_insights call and the filter on its rows
Search ==
    /\ fi_pc = "search"
    /\ calls' = Append(calls, "match_insights")
    /\ \/ /\ fetched' = [fetched EXCEPT !.errors = @ \cup {"match_insights"}]
          /\ insights' = insights
       \/ \E data \in RankedReplies(InsightIds, MatchCount) :
            /\ fetched' = [fetched EXCEPT !.semantic = data]
            /\ insights' = IF data # << >> THEN KeepNotExcluded(data, exclude_ids)
                           ELSE insights
    /\ fi_pc' = "supplement"
    /\ UNCHANGED << profile, exclude_ids, returned, bite_vars, not_insights >>

\* lines 97-124: the table query when fewer than 5 insights are held, then
\* the return of the first 6
Supplement ==
    /\ fi_pc = "supplement"
    /\ IF Len(insights) < SupplementBelow
       THEN /\ calls' = Append(calls, "select")
            /\ \/ /\ fetched' = [fetched EXCEPT !.errors = @ \cup {"select"},
                                                  !.limit = Needed(insights)]
                  /\ insights' = insights
               \/ \E data \in StoreReplies(Selectable(exclude_ids, insights),
                                           Needed(insights)) :
                    /\ fetched' = [fetched EXCEPT !.random = data,
                                                  !.limit = Needed(insights)]
                    /\ insights' = insights \o data
       ELSE UNCHANGED << calls, fetched, insights >>
    /\ returned' = [raised |-> FALSE, value |-> Take(insights', ReturnLimit)]
    /\ fi_pc' = "done"
    /\ UNCHANGED << profile, exclude_ids, bite_vars, not_insights >>

NextInsights == FetchStart \/ Embed \/ Search \/ Supplement

SpecInsights == InsightsInit /\ [][NextInsights]_vars

\* fetch_insights has returned a list
FetchReturned == fi_pc = "done" /\ ~returned.raised

\* C13: the list fetch_insights returns has at most 6 insights and none
\* whose id is in exclude_ids, whatever the profile and whatever the
\* semantic search and the table query replied.
C13_AtMostSixNoneExcluded ==
    FetchReturned =>
        /\ Len(returned.value) <= 6
        /\ \A i \in 1..Len(returned.value) : returned.value[i] \notin exclude_ids

\* C13 witness: the semantic reply held an excluded insight, and six
\* insights were returned
C13_Witness ==
    /\ FetchReturned
    /\ Elements(fetched.semantic) \cap exclude_ids # {}
    /\ Len(returned.value) = 6

\* C14: when the embedding call or the match_insights call raises,
\* fetch_insights does not raise, holds no semantic result, still runs the
\* table query and returns a list; when the table query raises,
\* fetch_insights returns the insights it held before it.
C14_FailuresAreSwallowed ==
    /\ fetched.errors # {} => ~returned.raised
    /\ (fi_pc = "done" /\ fetched.errors \cap {"embeddings.create", "match_insights"} # {})
       => /\ FetchReturned
          /\ fetched.semantic = << >>
          /\ calls[Len(calls)] = "select"
          /\ returned.value = fetched.random
    /\ (fi_pc = "done" /\ "select" \in fetched.errors)
       => /\ FetchReturned
          /\ returned.value = KeepNotExcluded(fetched.semantic, exclude_ids)

\* C14 witness: the embedding call raised and the table query then gave
\* rows, which were returned
C14_Witness ==
    /\ FetchReturned
    /\ "embeddings.create" \in fetched.errors
    /\ Len(returned.value) > 0

\* C15: for a profile without therapies fetch_insights makes no embedding
\* call and no match_insights call and returns only rows of the table
\* query; in every run the table query is the last call, made after the
\* semantic step has completed or failed.
C15_NoTherapiesNoSemanticStep ==
    /\ Len(profile.current_therapies.items) = 0 =>
          /\ Elements(calls) \subseteq {"select"}
          /\ FetchReturned => returned.value = fetched.random
    /\ \A i \in 1..Len(calls) : calls[i] = "select" => i = Len(calls)
    /\ fi_pc \in {"embed", "search"} => "select" \notin Elements(calls)

\* C15 witness: a profile with an empty therapy list got rows from the
\* table query alone
C15_Witness ==
    /\ FetchReturned
    /\ profile.current_therapies = TherapyList(<< >>)
    /\ calls = << "select" >>
    /\ Len(returned.value) > 0

(***************************************************************************)
(* bite_generator.get_recovery_phase.  on is date.today().                 *)
(***************************************************************************)
\* if days_since <= 7
AcuteDays == 7
\* elif days_since <= 180
SubacuteDays == 180

\* mutant: the seventh day is no longer acute
get_recovery_phase_strict(date, on) ==
    IF ~date.known THEN "unknown"
    ELSE IF on - date.day < AcuteDays THEN "acute"
    ELSE IF on - date.day <= SubacuteDays THEN "subacute"
    ELSE "chronic"

get_recovery_phase(date, on) ==
    IF ~date.known THEN "unknown"
    ELSE LET days_since == on - date.day
         IN  IF days_since <= AcuteDays THEN "acute"
             ELSE IF days_since <= SubacuteDays THEN "subacute"
             ELSE "chronic"

\* the calendar days a stroke date is drawn from: up to the day after the
\* latest today
PhaseDays == 0..(SubacuteDays + MaxDay + 1)

PhaseInit ==
    /\ today \in {SubacuteDays + MaxDay, SubacuteDays + MaxDay + 1}
    /\ stroke_bites = {}
    /\ pc = [r \in Requests |-> "start"]
    /\ local = [r \in Requests |-> NoLocal]
    /\ response = [r \in Requests |-> NoResponse]
    /\ stroke_date \in {NoDate} \cup { Date(d) : d \in PhaseDays }
    /\ phase = "not run"
    /\ InsightsIdle /\ AnswersIdle /\ ColorsIdle /\ MedicineIdle /\ MoreIdle

GetRecoveryPhase ==
    /\ phase = "not run"
    /\ phase' = get_recovery_phase(stroke_date, today)
    /\ UNCHANGED << stroke_date, bite_vars, insight_vars, answer_vars, color_vars,
                    medicine_vars, more_vars >>

SpecPhase == PhaseInit /\ [][GetRecoveryPhase]_vars

\* C16: get_recovery_phase returns a phase for every stroke date: unknown
\* without a date, acute 0 to 7 days after the stroke, subacute 8 to 180
\* days after it, chronic more than 180 days after it.
C16_PhaseByDaysSinceStroke ==
    phase # "not run" =>
        LET days == today - stroke_date.day
        IN  /\ phase \in {"unknown", "acute", "subacute", "chronic"}
            /\ ~stroke_date.known => phase = "unknown"
            /\ (stroke_date.known /\ days \in 0..7) => phase = "acute"
            /\ (stroke_date.known /\ days \in 8..180) => phase = "subacute"
            /\ (stroke_date.known /\ days > 180) => phase = "chronic"

\* C16 witness: the phase was computed for a stroke exactly 7 days ago
C16_Witness ==
    /\ phase = "acute"
    /\ stroke_date.known
    /\ today - stroke_date.day = 7

(***************************************************************************)
(* bite_generator.get_past_answers.  A text is NULL or a string, a string  *)
(* a sequence of characters.  The query has no ORDER BY, so the rows come  *)
(* in an order the database chooses.                                       *)
(***************************************************************************)
\* the most rows the stroke_bite_answers table holds
MaxAnswers == 2

\* timedelta(days=30)
CutoffDays == 30
\* [:50]
KeyLength == 50

\* datetime.utcnow(), in days
UtcNow == CutoffDays + 1

NullText == [null |-> TRUE, chars |-> << >>]
Text(chars) == [null |-> FALSE, chars |-> chars]

\* str.lower on one character
Lower(c) ==
    CASE c = "A" -> "a"
      [] c = "B" -> "b"
      [] OTHER -> c

\* question_text.lower().replace(" ", "_")[:50]
QuestionKey(chars) ==
    LET lowered == [i \in 1..Len(chars) |-> Lower(chars[i])]
        replaced == [i \in 1..Len(chars) |-> IF lowered[i] = " " THEN "_" ELSE lowered[i]]
    IN  SubSeq(replaced, 1, IF Len(chars) < KeyLength THEN Len(chars) ELSE KeyLength)

\* a question as long as a key
LongQuestion == [i \in 1..KeyLength |-> "a"]

\* two pairs of questions with one key each (by case and blank, by length)
\* and a question that is NULL
QuestionTexts ==
    { Text(<< "A", " ", "b" >>), Text(<< "a", "_", "B" >>),
      Text(LongQuestion \o << "x" >>), Text(LongQuestion \o << "y" >>),
      NullText }

\* created before the cutoff, at the cutoff, now
CreatedAts == {UtcNow - CutoffDays - 1, UtcNow - CutoffDays, UtcNow}

Answer(patient, question, label, at) ==
    [patient_id |-> patient, question_text |-> question, selected_label |-> label,
     created_at |-> at]

AnswerRows ==
    { Answer("p1", q, l, t) : q \in QuestionTexts, l \in {"Yes", "No", JNull},
                              t \in CreatedAts }
    \cup { Answer("p2", Text(<< "A", " ", "b" >>), "No", UtcNow) }

\* filter(patient_id == patient_id, created_at >= cutoff_date)
RecentAnswers(patient_id) ==
    { a \in stroke_bite_answers :
        a.patient_id = patient_id /\ a.created_at >= UtcNow - CutoffDays }

\* if answer.question_text and answer.selected_label
Counted(answer) ==
    /\ ~answer.question_text.null
    /\ answer.question_text.chars # << >>
    /\ Truthy(answer.selected_label)

\* .all(): the rows in some order
Orders(rows) ==
    { o \in [1..Cardinality(rows) -> rows] :
        \A i \in DOMAIN o : \A j \in DOMAIN o : o[i] = o[j] => i = j }

\* preferences[key] = answer.selected_label
Put(dict, key, value) ==
    [k \in DOMAIN dict \cup {key} |-> IF k = key THEN value ELSE dict[k]]

\* the loop over answers, from row i on
RECURSIVE BuildPreferences(_, _, _)
BuildPreferences(answers, i, dict) ==
    IF i > Len(answers) THEN dict
    ELSE BuildPreferences(answers, i + 1,
            IF Counted(answers[i])
            THEN Put(dict, QuestionKey(answers[i].question_text.chars),
                     answers[i].selected_label)
            ELSE dict)

\* the tables of up to MaxAnswers rows
AnswerTables ==
    {{}} \cup { { f[i] : i \in 1..MaxAnswers } : f \in [1..MaxAnswers -> AnswerRows] }

AnswersInit ==
    /\ BitesInit
    /\ stroke_bite_answers \in AnswerTables
    /\ preferences = NoPreferences
    /\ InsightsIdle /\ PhaseIdle /\ ColorsIdle /\ MedicineIdle /\ MoreIdle

\* get_past_answers("p1", db)
GetPastAnswers ==
    /\ ~preferences.run
    /\ \E answers \in Orders(RecentAnswers("p1")) :
         preferences' = [run |-> TRUE, map |-> BuildPreferences(answers, 1, << >>)]
    /\ UNCHANGED << stroke_bite_answers, bite_vars, insight_vars, phase_vars,
                    color_vars, medicine_vars, more_vars >>

SpecAnswers == AnswersInit /\ [][GetPastAnswers]_vars

\* the answers get_past_answers counts for patient p1, by key
CountedFor(key) ==
    { a \in RecentAnswers("p1") :
        Counted(a) /\ QuestionKey(a.question_text.chars) = key }

\* C17: when two answers of the last 30 days have question texts with the
\* same key, different labels and different creation times, the mapping
\* holds under that key the label of the answer created later.
C17_LaterAnswerWins ==
    preferences.run =>
        \A a \in RecentAnswers("p1") : \A b \in RecentAnswers("p1") :
            ( /\ Counted(a) /\ Counted(b)
              /\ QuestionKey(a.question_text.chars) = QuestionKey(b.question_text.chars)
              /\ a.selected_label # b.selected_label
              /\ a.created_at < b.created_at
              /\ \A c \in CountedFor(QuestionKey(b.question_text.chars)) :
                    c.created_at <= b.created_at )
            => preferences.map[QuestionKey(b.question_text.chars)] = b.selected_label

(***************************************************************************)
(* bite_generator.assign_card_colors, called on its own.                   *)
(***************************************************************************)
\* the values of a card's type: the six of the table, one the table does
\* not know, null, and no type key at all
CardTypes ==
    {"welcome", "research_fact", "motivation", "qa", "conditional_response", "tip",
     "quiz", JNull, Missing}

\* cards with and without a colour of the language model's choosing
ColorCards ==
    { [Card("c1", t, "text", JNull, NoOptions) EXCEPT !.background_color = c] :
        t \in CardTypes, c \in {Missing, "#FF0000"} }

ColorsInit ==
    /\ BitesInit
    /\ cards_data \in UNION { [1..n -> ColorCards] : n \in 0..MaxCards }
    /\ colored = NotColored
    /\ InsightsIdle /\ PhaseIdle /\ AnswersIdle /\ MedicineIdle /\ MoreIdle

AssignCardColors ==
    /\ ~colored.run
    /\ colored' = [run |-> TRUE, cards |-> assign_card_colors(cards_data)]
    /\ UNCHANGED << cards_data, bite_vars, insight_vars, phase_vars, answer_vars,
                    medicine_vars, more_vars >>

SpecColors == ColorsInit /\ [][AssignCardColors]_vars

\* the colour the table gives a type, the welcome colour for any other
TableColor(type) ==
    CASE type = "welcome" -> "#0D9488"
      [] type = "research_fact" -> "#3B82F6"
      [] type = "motivation" -> "#10B981"
      [] type = "qa" -> "#8B5CF6"
      [] type = "conditional_response" -> "#F59E0B"
      [] type = "tip" -> "#06B6D4"
      [] OTHER -> "#0D9488"

\* the cards differ in nothing but background_color
SameButColor(before, after) ==
    /\ Len(after) = Len(before)
    /\ \A i \in 1..Len(before) :
         [after[i] EXCEPT !.background_color = Missing]
             = [before[i] EXCEPT !.background_color = Missing]

NumLookups == 3

Lookups == 1..NumLookups

\* the names asked for: one name in two letter cases, one with a blank
MedicineNames == { << "A", "b" >>, << "a", "b", " " >> }

\* str.strip
RECURSIVE Strip(_)
Strip(name) ==
    IF name = << >> THEN name
    ELSE IF Head(name) = " " THEN Strip(Tail(name))
    ELSE IF name[Len(name)] = " " THEN Strip(SubSeq(name, 1, Len(name) - 1))
    ELSE name

\* str.lower, func.lower
LowerName(name) == [i \in 1..Len(name) |-> Lower(name[i])]

\* what _call_llm gives: an exception ("raise"), a JSON value that is no
\* object ("non_object"), or an object with the three fields ("A", "B")
LlmReplies == {"raise", "non_object", "A", "B"}

\* lines 74-79: the dict the record is built from
LlmData(reply) ==
    IF reply = "raise"
    THEN [combination |-> JNull, drug_class |-> JNull, used_for |-> JNull]
    ELSE [combination |-> reply, drug_class |-> reply, used_for |-> reply]

NoRow ==
    [id |-> 0, medicine_name |-> << >>, combination |-> JNull, drug_class |-> JNull,
     used_for |-> JNull]

\* lines 81-86; the id column defaults to a fresh uuid4, modelled by the
\* number of the lookup
MedicineInfo(r, normalized, data) ==
    [id |-> r, medicine_name |-> normalized, combination |-> data.combination,
     drug_class |-> data.drug_class, used_for |-> data.used_for]

NoMedLocal ==
    [name |-> << >>, normalized |-> << >>, reply |-> "none", after |-> {},
     record |-> NoRow]

NoMedResult == [raised |-> FALSE, row |-> NoRow]

\* filter(func.lower(MedicineInfo.medicine_name) == normalized.lower())
CachedRows(normalized) ==
    { m \in medicine_info : LowerName(m.medicine_name) = LowerName(normalized) }

\* medicine_name is declared unique=True: a second row with the same
\* string is rejected
NameTaken(record) ==
    \E m \in medicine_info : m.medicine_name = record.medicine_name

MedicineInit ==
    /\ BitesInit
    /\ medicine_info = {}
    /\ med_pc = [r \in Lookups |-> "start"]
    /\ med_local = [r \in Lookups |-> NoMedLocal]
    /\ med_result = [r \in Lookups |-> NoMedResult]
    /\ InsightsIdle /\ PhaseIdle /\ AnswersIdle /\ ColorsIdle /\ MoreIdle

\* lines 62-86: strip, look the name up whatever its case, return the row
\* found; else call the language model and build the record
MedLookup(r) ==
    /\ med_pc[r] = "start"
    /\ \E name \in MedicineNames :
         LET normalized == Strip(name)
             started == [med_local[r] EXCEPT
                            !.name = name, !.normalized = normalized,
                            !.after = { q \in Lookups : med_pc[q] = "done" }]
         IN  IF CachedRows(normalized) # {}
             THEN /\ \E cached \in CachedRows(normalized) :
                        med_result' = [med_result EXCEPT ![r].row = cached]
                  /\ med_local' = [med_local EXCEPT ![r] = started]
                  /\ med_pc' = [med_pc EXCEPT ![r] = "done"]
             ELSE \E reply \in LlmReplies :
                    IF reply = "non_object"
                    THEN /\ med_local' = [med_local EXCEPT ![r] =
                                [started EXCEPT !.reply = reply]]
                         /\ med_result' = [med_result EXCEPT ![r].raised = TRUE]
                         /\ med_pc' = [med_pc EXCEPT ![r] = "done"]
                    ELSE /\ med_local' = [med_local EXCEPT ![r] =
                                [started EXCEPT
                                    !.reply = reply,
                                    !.record = MedicineInfo(r, normalized, LlmData(reply))]]
                         /\ med_result' = med_result
                         /\ med_pc' = [med_pc EXCEPT ![r] = "commit"]
    /\ UNCHANGED << medicine_info, bite_vars, insight_vars, phase_vars, answer_vars,
                    color_vars, more_vars >>

\* lines 87-92 and 103: add, commit, refresh, return the record; a rejected
\* commit is rolled back
MedCommit(r) ==
    /\ med_pc[r] = "commit"
    /\ IF NameTaken(med_local[r].record)
       THEN /\ med_pc' = [med_pc EXCEPT ![r] = "refetch"]
            /\ UNCHANGED << medicine_info, med_result >>
       ELSE /\ medicine_info' = medicine_info \cup {med_local[r].record}
            /\ med_result' = [med_result EXCEPT ![r].row = med_local[r].record]
            /\ med_pc' = [med_pc EXCEPT ![r] = "done"]
    /\ UNCHANGED << med_local, bite_vars, insight_vars, phase_vars, answer_vars,
                    color_vars, more_vars >>

\* lines 93-101: look the name up again, return the row found or re-raise
MedRefetch(r) ==
    /\ med_pc[r] = "refetch"
    /\ IF CachedRows(med_local[r].normalized) # {}
       THEN \E cached \in CachedRows(med_local[r].normalized) :
                med_result' = [med_result EXCEPT ![r].row = cached]
       ELSE med_result' = [med_result EXCEPT ![r].raised = TRUE]
    /\ med_pc' = [med_pc EXCEPT ![r] = "done"]
    /\ UNCHANGED << medicine_info, med_local, bite_vars, insight_vars, phase_vars,
                    answer_vars, color_vars, more_vars >>

NextMedicine == \E r \in Lookups : MedLookup(r) \/ MedCommit(r) \/ MedRefetch(r)

SpecMedicine == MedicineInit /\ [][NextMedicine]_vars

\* the lookups that have returned or raised
LookedUp == { r \in Lookups : med_pc[r] = "done" }

\* the fields a lookup answers with
MedicineData(row) ==
    [combination |-> row.combination, drug_class |-> row.drug_class,
     used_for |-> row.used_for]

\* C19: two concurrent lookups of the same name both return, with the same
\* combination, drug class and use, and leave exactly one row of that name
\* (stated for lookups whose language-model reply, if any, was an object or
\* an exception).
C19_ConcurrentLookupsAgree ==
    \A r1 \in LookedUp : \A r2 \in LookedUp :
        ( /\ r1 # r2
          /\ med_local[r1].reply # "non_object"
          /\ med_local[r2].reply # "non_object"
          /\ med_local[r1].normalized = med_local[r2].normalized
          /\ r1 \notin med_local[r2].after
          /\ r2 \notin med_local[r1].after )
        => /\ ~med_result[r1].raised
           /\ ~med_result[r2].raised
           /\ MedicineData(med_result[r1].row) = MedicineData(med_result[r2].row)
           /\ Cardinality({ m \in medicine_info :
                              m.medicine_name = med_local[r1].normalized }) = 1

\* C20: a lookup whose call of the language model raised returns, a row of
\* its name with null combination, drug class and use is stored, and every
\* lookup of that name in any letter case that starts later returns that
\* row without calling the language model (stated for a lookup whose own
\* insert was accepted).
C20_FailedLookupIsCached ==
    \A r1 \in LookedUp :
        (med_local[r1].reply = "raise" /\ med_result[r1].row = med_local[r1].record) =>
            /\ ~med_result[r1].raised
            /\ \E m \in medicine_info :
                 /\ m.medicine_name = med_local[r1].normalized
                 /\ MedicineData(m) = LlmData("raise")
                 /\ \A r2 \in LookedUp :
                      ( /\ r1 \in med_local[r2].after
                        /\ LowerName(med_local[r2].normalized)
                               = LowerName(med_local[r1].normalized) )
                      => /\ med_result[r2].row = m
                         /\ med_local[r2].reply = "none"

(***************************************************************************)
(* medicine_info_service.search_medicine_names over a medicine_info table  *)
(* drawn in the initial state.  The query reaches the LIKE pattern as it   *)
(* is, between two percent signs.                                          *)
(***************************************************************************)
\* the longest query
MaxQuery == 2

\* limit: int = 10
SearchLimit == 10

QueryChars == {"a", "B", "_", "%"}
Queries == UNION { [1..n -> QueryChars] : n \in 0..MaxQuery }

\* the names the table may hold
SearchNames == << << "A", "b" >>, << "a", "_" >>, << "b" >> >>

\* the drug classes a row may have; JNull is the class of the row written
\* after a failure of the language model
DrugClasses == {JNull, "Unknown", "unknown", "Analgesic"}

\* func.lower on a drug class
LowerClass(class) == IF class = "Unknown" THEN "unknown" ELSE class

\* the tables: each name absent or present once, with any class
SearchTables ==
    { { [id |-> i, medicine_name |-> SearchNames[i], combination |-> f[i],
         drug_class |-> f[i], used_for |-> f[i]] :
          i \in { j \in DOMAIN SearchNames : f[j] # Missing } } :
      f \in [DOMAIN SearchNames -> DrugClasses \cup {Missing}] }

\* text LIKE pattern, both lower-cased: a percent sign stands for any run of
\* characters, an underscore for any one character
RECURSIVE Like(_, _)
Like(pattern, text) ==
    IF pattern = << >> THEN text = << >>
    ELSE IF Head(pattern) = "%"
    THEN Like(Tail(pattern), text) \/ (text # << >> /\ Like(pattern, Tail(text)))
    ELSE /\ text # << >>
         /\ Head(pattern) = "_" \/ Head(pattern) = Head(text)
         /\ Like(Tail(pattern), Tail(text))

\* medicine_name.ilike(f"%{query}%")
ILike(name, query) ==
    Like(<< "%" >> \o LowerName(query) \o << "%" >>, LowerName(name))

\* the three filters of the query
SearchMatches(query) ==
    { m \in medicine_info :
        /\ ILike(m.medicine_name, query)
        /\ m.drug_class # JNull
        /\ LowerClass(m.drug_class) # "unknown" }

Smaller(a, b) == IF a < b THEN a ELSE b

SearchInit ==
    /\ BitesInit
    /\ medicine_info \in SearchTables
    /\ med_pc = << >>
    /\ med_local = << >>
    /\ med_result = << >>
    /\ search \in { [NoSearch EXCEPT !.query = q] : q \in Queries }
    /\ InsightsIdle /\ PhaseIdle /\ AnswersIdle /\ ColorsIdle
    /\ PapersIdle /\ SaveIdle /\ MoodIdle /\ StreakIdle

\* search_medicine_names(query, db): .limit(limit).all() gives any limit
\* of the matching rows, or all of them when they are fewer
SearchMedicineNames ==
    /\ ~search.run
    /\ \E rows \in SUBSET SearchMatches(search.query) :
         /\ Cardinality(rows) = Smaller(SearchLimit, Cardinality(SearchMatches(search.query)))
         /\ search' = [search EXCEPT !.run = TRUE, !.rows = rows]
    /\ UNCHANGED << medicine_vars, paper_store, paper_run, save, mood_entries,
                    mood_req, game_results, streak, bite_vars, insight_vars,
                    phase_vars, answer_vars, color_vars >>

SpecSearch == SearchInit /\ [][SearchMedicineNames]_vars

\* name contains query, whatever the letter case
ContainsQuery(name, query) ==
    \E i \in 1..(Len(name) + 1) :
        /\ i + Len(query) - 1 <= Len(name)
        /\ SubSeq(LowerName(name), i, i + Len(query) - 1) = LowerName(query)

\* C21: search_medicine_names returns no row whose drug class is null or
\* "unknown", and returns only rows whose name contains the query.
C21_SearchReturnsKnownClassesContainingQuery ==
    search.run =>
        \A m \in search.rows :
            /\ m.drug_class # JNull
            /\ LowerClass(m.drug_class) # "unknown"
            /\ ContainsQuery(m.medicine_name, search.query)

(***************************************************************************)
(* fetch_insights: the list returned, against the replies of the two steps *)
(***************************************************************************)
\* C22: the list returned by fetch_insights never contains the same
\* insight id twice, for every exclude_ids, the empty list included.
C22_NoInsightTwice ==
    FetchReturned =>
        \A i \in 1..Len(returned.value) : \A j \in 1..Len(returned.value) :
            returned.value[i] = returned.value[j] => i = j

\* the insights step 1 ends with
SemanticYield == KeepNotExcluded(fetched.semantic, exclude_ids)

\* C23: the table query of step 2 is run exactly when step 1 yielded fewer
\* than 5 insights, it is asked for as many insights as are missing to
\* reach 6, and the list returned is the yield of step 1 in its ranked
\* order followed by the supplements, cut to 6.
C23_SupplementWhenFewerThanFive ==
    FetchReturned =>
        /\ (\E i \in 1..Len(calls) : calls[i] = "select") <=> Len(SemanticYield) < 5
        /\ Len(SemanticYield) < 5 => fetched.limit = 6 - Len(SemanticYield)
        /\ returned.value = Take(SemanticYield \o fetched.random, 6)

\* C23 witness: step 1 yielded two insights ranked against their ids and
\* lost an excluded one, and step 2 added four
C23_Witness ==
    /\ FetchReturned
    /\ Len(SemanticYield) = 2
    /\ SemanticYield[1] > SemanticYield[2]
    /\ Len(fetched.semantic) = 3
    /\ Len(fetched.random) = 4
    /\ fetched.limit = 4
    /\ Len(returned.value) = 6

(***************************************************************************)
(* bite_generator.generate_bites up to the prompt: the insights shown in   *)
(* the stored bites of the last 14 days are collected and handed to        *)
(* fetch_insights, whose list goes to build_prompt.  An insight id in a    *)
(* card is a number, 0 where the card has none.                            *)
(***************************************************************************)
\* timedelta(days=14)
WindowDays == 14

\* date.today() of the generation
WindowToday == WindowDays + 1

WindowCard(source) == [source_insight_id |-> source]

\* cards_json: a dict with its cards, or a value that is none
CardsJson(cards) == [kind |-> "dict", cards |-> cards]
NoCardsJson == [kind |-> "null", cards |-> << >>]

PastBite(id, patient, day, cards_json) ==
    [id |-> id, patient_id |-> patient, generated_date |-> day, cards_json |-> cards_json]

\* stored bites: one generated a day before the window, one on its first
\* day, two today, and one of another patient
WindowRows ==
    { PastBite(1, "p1", WindowToday - WindowDays - 1, CardsJson(<< WindowCard(1) >>)),
      PastBite(2, "p1", WindowToday - WindowDays, CardsJson(<< WindowCard(2) >>)),
      PastBite(3, "p1", WindowToday, CardsJson(<< WindowCard(0), WindowCard(1) >>)),
      PastBite(4, "p1", WindowToday, NoCardsJson),
      PastBite(5, "p2", WindowToday, CardsJson(<< WindowCard(2) >>)) }

WindowTables == { { f[1], f[2] } : f \in [1..2 -> WindowRows] } \cup {{}}

\* mutant: only the bites of today and yesterday are read
PastBites_latest(patient_id, on) ==
    { b \in stroke_bites : b.patient_id = patient_id /\ b.generated_date >= on - 1 }

\* filter(patient_id == profile.id, generated_date >= cutoff_date)
PastBites(patient_id, on) ==
    { b \in stroke_bites :
        b.patient_id = patient_id /\ b.generated_date >= on - WindowDays }

\* the loops of lines 313-318
ShownIds(bites) ==
    UNION { { b.cards_json.cards[i].source_insight_id : i \in DOMAIN b.cards_json.cards } :
            b \in { c \in bites : c.cards_json.kind = "dict" } } \ {0}

WindowInit ==
    /\ today = WindowToday
    /\ stroke_bites \in WindowTables
    /\ pc = << >>
    /\ local = << >>
    /\ response = << >>
    /\ PhaseIdle /\ AnswersIdle /\ ColorsIdle /\ MedicineIdle /\ MoreIdle
    /\ fi_pc = "collect"
    /\ profile = [current_therapies |-> TherapyList(<< "PT" >>)]
    /\ exclude_ids = {}
    /\ insights = << >>
    /\ calls = << >>
    /\ fetched = NothingFetched
    /\ returned = NotReturned

\* lines 303-322: read the past bites of the patient, gather the shown ids,
\* call fetch_insights with them
CollectExcluded ==
    /\ fi_pc = "collect"
    /\ exclude_ids' = ShownIds(PastBites("p1", today))
    /\ fi_pc' = "start"
    /\ UNCHANGED << profile, insights, calls, fetched, returned, bite_vars, not_insights >>

NextWindow == CollectExcluded \/ FetchStart \/ Embed \/ Search \/ Supplement

SpecWindow == WindowInit /\ [][NextWindow]_vars

\* the insights of the cards of a bite
CardInsights(bite) ==
    { bite.cards_json.cards[i].source_insight_id : i \in DOMAIN bite.cards_json.cards } \ {0}

\* C24: an insight that is the source_insight_id of a card of a bite stored
\* for the patient within the last 14 days is in the exclusion set of the
\* next generation and is not in the list handed to the prompt.
C24_ShownInsightsAreExcluded ==
    fi_pc # "collect" =>
        \A b \in stroke_bites :
            ( /\ b.patient_id = "p1"
              /\ b.generated_date <= today
              /\ today - b.generated_date <= 14 )
            => \A id \in CardInsights(b) :
                 /\ id \in exclude_ids
                 /\ FetchReturned => id \notin Elements(returned.value)

\* C24 witness: a bite generated 14 days ago showed insight 2, the semantic
\* search offered it again, and a full list without it was returned
C24_Witness ==
    /\ FetchReturned
    /\ \E b \in stroke_bites :
         /\ b.patient_id = "p1"
         /\ today - b.generated_date = 14
         /\ 2 \in CardInsights(b)
    /\ 2 \in Elements(fetched.semantic)
    /\ 2 \notin Elements(returned.value)
    /\ Len(returned.value) = 6

(***************************************************************************)
(* generate_todays_bites: two requests that both generate                  *)
(***************************************************************************)
\* request r missed the cache, ran the generator and tried to insert a row
\* the NOT NULL columns accept
TriedInsert(r) ==
    /\ pc[r] = "done"
    /\ local[r].reply # NoReply
    /\ ~local[r].outcome.raised
    /\ NewBite(r).start_card_id # JNull

\* C25: when two concurrent requests of one patient and date both miss the
\* cache and both run the generator, only one of their two inserts is kept.
C25_OnlyOneWriteKept ==
    \A r1 \in Requests : \A r2 \in Requests :
        ( /\ r1 # r2
          /\ TriedInsert(r1) /\ TriedInsert(r2)
          /\ local[r1].patient = local[r2].patient
          /\ local[r1].today = local[r2].today )
        => Cardinality(BitesOf(local[r1].patient, local[r1].today)) = 1

(***************************************************************************)
(* get_or_create_medicine_info: the names of the stored rows               *)
(***************************************************************************)
\* C26: after any interleaving of lookups no two rows of medicine_info have
\* names that are equal ignoring letter case.
C26_NamesUniqueIgnoringCase ==
    \A m1 \in medicine_info : \A m2 \in medicine_info :
        LowerName(m1.medicine_name) = LowerName(m2.medicine_name) => m1 = m2

(***************************************************************************)
(* paper_refinery.pipeline.process_paper(store=True), run after run, over  *)
(* the papers, paper_sections and insights tables (paper_refinery/db.py).  *)
(* A paper is known by the hash of its file; every call to the store is a  *)
(* request of its own and may raise.                                       *)
(***************************************************************************)
\* the number of different files
MaxPapers == 2
\* the most runs of process_paper
MaxRuns == 3

PaperHashes == 1..MaxPapers

\* parsed.sections, by section_name
PaperSections == << "abstract", "results" >>

ExtractedInsight(section_name, claim) == [section_name |-> section_name, claim |-> claim]

\* what extract_insights_from_paper may give, one section after the other:
\* no insight, one insight, one insight in each section
Extractions ==
    { << >>,
      << ExtractedInsight("results", 1) >>,
      << ExtractedInsight("abstract", 1), ExtractedInsight("results", 2) >> }

PaperRow(hash) == [id |-> hash, hash |-> hash]
SectionRow(paper_id, section_name) == [paper_id |-> paper_id, section_name |-> section_name]
InsightRow(paper_id, insight) ==
    [paper_id |-> paper_id, section_name |-> insight.section_name, claim |-> insight.claim]

\* db.check_paper_exists
check_paper_exists(hash) == \E p \in paper_store.papers : p.hash = hash

\* the except branch: success=False, nothing is undone
RunFailed == [paper_run EXCEPT !.pc = "idle", !.result = "failed"]

PapersInit ==
    /\ BitesInit
    /\ InsightsIdle /\ PhaseIdle /\ AnswersIdle /\ ColorsIdle /\ MedicineIdle
    /\ SearchIdle /\ SaveIdle /\ MoodIdle /\ StreakIdle
    /\ paper_store = EmptyStore
    /\ paper_run = NoRun

PapersUnchanged ==
    UNCHANGED << search, save, mood_entries, mood_req, game_results, streak, bite_vars,
                 insight_vars, phase_vars, answer_vars, color_vars, medicine_vars >>

\* lines 44-91: parse, check for a duplicate, extract, embed
ProcessPaper(hash) ==
    /\ paper_run.pc = "idle"
    /\ paper_run.runs < MaxRuns
    /\ LET run == [paper_run EXCEPT !.runs = @ + 1, !.paper = hash, !.next = 0,
                                    !.extracted = << >>]
       IN  \/ paper_run' = [run EXCEPT !.result = "failed"]
           \/ /\ check_paper_exists(hash)
              /\ paper_run' = [run EXCEPT !.result = "duplicate"]
           \/ /\ ~check_paper_exists(hash)
              /\ \E extraction \in Extractions :
                   IF Len(extraction) > 0
                   THEN paper_run' = [run EXCEPT !.extracted = extraction,
                                                 !.pc = "insert_paper"]
                   ELSE paper_run' = [run EXCEPT !.result = "success"]
    /\ UNCHANGED paper_store
    /\ PapersUnchanged

\* lines 97-98: db.insert_paper
InsertPaper ==
    /\ paper_run.pc = "insert_paper"
    /\ \/ /\ paper_run' = RunFailed
          /\ paper_store' = paper_store
       \/ /\ paper_store' = [paper_store EXCEPT !.papers = @ \cup {PaperRow(paper_run.paper)}]
          /\ paper_run' = [paper_run EXCEPT
                !.pc = "insert_section", !.next = 1,
                !.stored_with = Put(@, paper_run.paper, paper_run.extracted)]
    /\ PapersUnchanged

\* lines 101-104: db.insert_section for each section
InsertSection ==
    /\ paper_run.pc = "insert_section"
    /\ \/ /\ paper_run' = RunFailed
          /\ paper_store' = paper_store
       \/ /\ paper_store' = [paper_store EXCEPT !.sections =
                @ \cup {SectionRow(paper_run.paper, PaperSections[paper_run.next])}]
          /\ paper_run' = IF paper_run.next < Len(PaperSections)
                          THEN [paper_run EXCEPT !.next = @ + 1]
                          ELSE [paper_run EXCEPT !.pc = "insert_insight", !.next = 1]
    /\ PapersUnchanged

\* lines 107-109 and 117-127: db.insert_insight for each insight, then the
\* result of the run
InsertInsight ==
    /\ paper_run.pc = "insert_insight"
    /\ \/ /\ paper_run' = RunFailed
          /\ paper_store' = paper_store
       \/ /\ paper_store' = [paper_store EXCEPT !.insights =
                @ \cup {InsightRow(paper_run.paper, paper_run.extracted[paper_run.next])}]
          /\ paper_run' = IF paper_run.next < Len(paper_run.extracted)
                          THEN [paper_run EXCEPT !.next = @ + 1]
                          ELSE [paper_run EXCEPT !.pc = "idle", !.result = "success"]
    /\ PapersUnchanged

NextPapers ==
    \/ \E hash \in PaperHashes : ProcessPaper(hash)
    \/ InsertPaper
    \/ InsertSection
    \/ InsertInsight

SpecPapers == PapersInit /\ [][NextPapers]_vars

\* the paper row has all its sections and all the insights extracted with it
StoredWhole(p) ==
    /\ \A i \in DOMAIN PaperSections :
         SectionRow(p.id, PaperSections[i]) \in paper_store.sections
    /\ \A i \in DOMAIN paper_run.stored_with[p.hash] :
         InsightRow(p.id, paper_run.stored_with[p.hash][i]) \in paper_store.insights

\* C27: after any sequence of runs every paper row in the store has all of
\* its sections and all of its extracted insights stored with it, so a run
\* skipped as a duplicate is never the run of a partially stored paper.
C27_StoredPapersAreWhole ==
    paper_run.pc = "idle" => \A p \in paper_store.papers : StoredWhole(p)

(***************************************************************************)
(* api/stroke_bites.save_bite_answers over the stroke_bites and            *)
(* stroke_bite_answers tables.  The rows are added in one session and      *)
(* committed once.                                                         *)
(***************************************************************************)
\* the most answers submitted in one call
MaxSubmitted == 2

\* the bites stored: bite 1 of patient p1, bite 2 of patient p2
SavedBites ==
    { PastBite(1, "p1", 0, NoCardsJson), PastBite(2, "p2", 0, NoCardsJson) }

\* bite_id: a bite of p1, a bite of p2, no bite
BiteIds == {1, 2, 3}

AnswerItem(card_id, selected_key, question_text, selected_label) ==
    [card_id |-> card_id, selected_key |-> selected_key,
     question_text |-> question_text, selected_label |-> selected_label]

AnswerItems ==
    { AnswerItem("c1", "a", "Q", "Yes"), AnswerItem("c2", "b", JNull, JNull) }

SubmittedAnswers == UNION { [1..n -> AnswerItems] : n \in 0..MaxSubmitted }

\* StrokeBiteAnswer(...); the id column defaults to a fresh uuid4
StrokeBiteAnswer(id, bite_id, patient_id, item) ==
    [id |-> id, bite_id |-> bite_id, patient_id |-> patient_id, card_id |-> item.card_id,
     selected_key |-> item.selected_key, question_text |-> item.question_text,
     selected_label |-> item.selected_label]

\* the answers stored before the call: none, or one of p2 for bite 2
StoredAnswers ==
    { {}, { StrokeBiteAnswer(100, 2, "p2", AnswerItem("c1", "a", "Q", "Yes")) } }

\* mutant: the bite is looked up by its id alone
OwnedBites_of_anyone(bite_id, patient_id) ==
    { b \in stroke_bites : b.id = bite_id }

\* filter(StrokeBite.id == bite_id, StrokeBite.patient_id == profile.id)
OwnedBites(bite_id, patient_id) ==
    { b \in stroke_bites : b.id = bite_id /\ b.patient_id = patient_id }

\* the rows the loop adds: a fresh id each
NewAnswers(bite_id, patient_id, answers) ==
    { StrokeBiteAnswer(i, bite_id, patient_id, answers[i]) : i \in DOMAIN answers }

SaveInit ==
    /\ today = 0
    /\ stroke_bites = SavedBites
    /\ pc = << >>
    /\ local = << >>
    /\ response = << >>
    /\ InsightsIdle /\ PhaseIdle /\ ColorsIdle /\ MedicineIdle
    /\ SearchIdle /\ PapersIdle /\ MoodIdle /\ StreakIdle
    /\ stroke_bite_answers \in StoredAnswers
    /\ preferences = NoPreferences
    /\ save \in { [NoSave EXCEPT !.pc = "start", !.caller = who, !.bite_id = b,
                                 !.answers = a] :
                    who \in Patients \cup AuthFailures, b \in BiteIds,
                    a \in SubmittedAnswers }

SaveUnchanged ==
    UNCHANGED << search, paper_store, paper_run, mood_entries, mood_req, game_results,
                 streak, bite_vars, insight_vars, phase_vars, preferences, color_vars,
                 medicine_vars >>

\* lines 193-235
SaveBiteAnswers ==
    /\ save.pc = "start"
    /\ IF save.caller \in AuthFailures
       THEN /\ save' = [save EXCEPT !.pc = "done",
                           !.status = IF save.caller = "bad_token" THEN 401 ELSE 404]
            /\ stroke_bite_answers' = stroke_bite_answers
       ELSE IF OwnedBites(save.bite_id, save.caller) = {}
       THEN /\ save' = [save EXCEPT !.pc = "done", !.status = 404]
            /\ stroke_bite_answers' = stroke_bite_answers
       ELSE \/ /\ save' = [save EXCEPT !.pc = "done", !.status = 500]
               /\ stroke_bite_answers' = stroke_bite_answers
            \/ /\ stroke_bite_answers' = stroke_bite_answers
                     \cup NewAnswers(save.bite_id, save.caller, save.answers)
               /\ save' = [save EXCEPT
                     !.pc = "done", !.status = 201,
                     !.id = IF Len(save.answers) > 0 THEN 1 ELSE save.bite_id,
                     !.answers_count = Len(save.answers)]
    /\ SaveUnchanged

SpecSave == SaveInit /\ [][SaveBiteAnswers]_vars

\* C28: save_bite_answers stores answers only for a bite owned by the
\* caller's profile; for a bite that does not exist or is another patient's
\* it answers 404 and creates no row; on success it creates exactly one row
\* per submitted answer, each with the caller's patient id, and it changes
\* no stored answer and no bite.
C28_AnswersOnlyForOwnBite ==
    [][ (save.pc = "start" /\ save'.pc = "done") =>
          /\ stroke_bites' = stroke_bites
          /\ stroke_bite_answers \subseteq stroke_bite_answers'
          /\ (save.caller \in Patients /\
              ~\E b \in stroke_bites : b.id = save.bite_id /\ b.patient_id = save.caller)
                => /\ save'.status = 404
                   /\ stroke_bite_answers' = stroke_bite_answers
          /\ save'.status # 201 => stroke_bite_answers' = stroke_bite_answers
          /\ save'.status = 201 =>
                /\ Cardinality(stroke_bite_answers' \ stroke_bite_answers)
                       = Len(save.answers)
                /\ save'.answers_count = Len(save.answers)
                /\ \A a \in stroke_bite_answers' \ stroke_bite_answers :
                     /\ a.patient_id = save.caller
                     /\ a.bite_id = save.bite_id
                     /\ \E b \in stroke_bites :
                          b.id = a.bite_id /\ b.patient_id = save.caller
                     /\ \E i \in DOMAIN save.answers :
                          /\ a.card_id = save.answers[i].card_id
                          /\ a.selected_key = save.answers[i].selected_key
      ]_vars

\* C28 witness: patient p1 saved two answers for an own bite beside a stored
\* answer of p2
C28_Witness ==
    /\ save.pc = "done"
    /\ save.status = 201
    /\ save.caller = "p1"
    /\ save.answers_count = 2
    /\ Cardinality(stroke_bite_answers) = 3

(***************************************************************************)
(* api/mood.create_mood_entry and update_mood_entry over the mood_entries  *)
(* table (models/mood_entry.py).  The requests run concurrently, each in   *)
(* its own session: a request reads, then commits.                         *)
(***************************************************************************)
\* number of mood requests
NumMoodRequests == 2

MoodRequests == 1..NumMoodRequests

\* entry_date
MoodDates == {1, 2}

\* an Optional field that was not sent
NotSent == 0

MoodEntry(id, patient_id, entry_date, mood_level) ==
    [id |-> id, patient_id |-> patient_id, entry_date |-> entry_date,
     mood_level |-> mood_level]

NoMoodRequest ==
    [pc |-> "start", kind |-> "none", caller |-> "none", entry_id |-> 0,
     entry_date |-> NotSent, mood_level |-> NotSent, status |-> 0]

\* filter(patient_id == profile.id, entry_date == entry_date)
EntriesOn(patient_id, entry_date) ==
    { e \in mood_entries : e.patient_id = patient_id /\ e.entry_date = entry_date }

\* filter(MoodEntry.id == entry_id, MoodEntry.patient_id == profile.id)
OwnEntries(entry_id, patient_id) ==
    { e \in mood_entries : e.id = entry_id /\ e.patient_id = patient_id }

MoodInit ==
    /\ BitesInit
    /\ InsightsIdle /\ PhaseIdle /\ AnswersIdle /\ ColorsIdle /\ MedicineIdle
    /\ SearchIdle /\ PapersIdle /\ SaveIdle /\ StreakIdle
    /\ mood_entries = {}
    /\ mood_req = [r \in MoodRequests |-> NoMoodRequest]

MoodUnchanged ==
    UNCHANGED << search, paper_store, paper_run, save, game_results, streak, bite_vars,
                 insight_vars, phase_vars, answer_vars, color_vars, medicine_vars >>

\* create_mood_entry, lines 65-77: 400 when the patient has an entry for
\* the date
CreateCheck(r) ==
    /\ mood_req[r].pc = "start"
    /\ \E who \in Patients, d \in MoodDates :
         LET asked == [mood_req[r] EXCEPT !.kind = "create", !.caller = who,
                                          !.entry_date = d, !.mood_level = 3]
         IN  mood_req' = [mood_req EXCEPT ![r] =
                IF EntriesOn(who, d) # {}
                THEN [asked EXCEPT !.pc = "done", !.status = 400]
                ELSE [asked EXCEPT !.pc = "insert"]]
    /\ mood_entries' = mood_entries
    /\ MoodUnchanged

\* create_mood_entry, lines 79-89: add, commit, answer 201
CreateCommit(r) ==
    /\ mood_req[r].pc = "insert"
    /\ mood_entries' = mood_entries \cup
          { MoodEntry(r, mood_req[r].caller, mood_req[r].entry_date,
                      mood_req[r].mood_level) }
    /\ mood_req' = [mood_req EXCEPT ![r].pc = "done", ![r].status = 201,
                                    ![r].entry_id = r]
    /\ MoodUnchanged

\* update_mood_entry, lines 151-175: 404 when the entry is not the
\* caller's, 400 when another entry of the caller has the new date
UpdateCheck(r) ==
    /\ mood_req[r].pc = "start"
    /\ \E who \in Patients, id \in MoodRequests, d \in MoodDates \cup {NotSent},
          level \in {NotSent, 5} :
         LET asked == [mood_req[r] EXCEPT !.kind = "update", !.caller = who,
                                          !.entry_id = id, !.entry_date = d,
                                          !.mood_level = level]
         IN  mood_req' = [mood_req EXCEPT ![r] =
                IF OwnEntries(id, who) = {}
                THEN [asked EXCEPT !.pc = "done", !.status = 404]
                ELSE IF /\ d # NotSent
                        /\ \E e \in OwnEntries(id, who) : e.entry_date # d
                        /\ \E other \in EntriesOn(who, d) : other.id # id
                THEN [asked EXCEPT !.pc = "done", !.status = 400]
                ELSE [asked EXCEPT !.pc = "update"]]
    /\ mood_entries' = mood_entries
    /\ MoodUnchanged

\* update_mood_entry, lines 176-187: set the fields that were sent, commit
UpdateCommit(r) ==
    /\ mood_req[r].pc = "update"
    /\ mood_entries' =
          { IF e.id = mood_req[r].entry_id
            THEN [e EXCEPT
                    !.entry_date = IF mood_req[r].entry_date # NotSent
                                   THEN mood_req[r].entry_date ELSE @,
                    !.mood_level = IF mood_req[r].mood_level # NotSent
                                   THEN mood_req[r].mood_level ELSE @]
            ELSE e : e \in mood_entries }
    /\ mood_req' = [mood_req EXCEPT ![r].pc = "done", ![r].status = 200]
    /\ MoodUnchanged

NextMood ==
    \E r \in MoodRequests :
        CreateCheck(r) \/ CreateCommit(r) \/ UpdateCheck(r) \/ UpdateCommit(r)

SpecMood == MoodInit /\ [][NextMood]_vars

\* C29: after any interleaving of create and update requests a patient has
\* at most one mood entry per entry_date.
C29_OneMoodEntryPerDate ==
    \A e1 \in mood_entries : \A e2 \in mood_entries :
        (e1.patient_id = e2.patient_id /\ e1.entry_date = e2.entry_date) => e1 = e2

(***************************************************************************)
(* api/games.calculate_streak.  game_results holds the distinct dates of   *)
(* the played_at times of the patient's results, as the query gives them;  *)
(* played_at is a UTC time and today is date.today() of the server, so a   *)
(* play date may be the day after today.                                   *)
(***************************************************************************)
\* the last day a game may be dated
MaxPlayDay == 4

PlayDays == 0..MaxPlayDay

\* the loop of lines 140-146, from row i on
RECURSIVE CountStreak(_, _, _, _)
CountStreak(played_dates, i, check_date, count) ==
    IF i > Len(played_dates) THEN count
    ELSE IF played_dates[i] = check_date
    THEN CountStreak(played_dates, i + 1, check_date - 1, count + 1)
    ELSE IF played_dates[i] < check_date THEN count
    ELSE CountStreak(played_dates, i + 1, check_date, count)

StreakResult(count, has_last, last_played) ==
    [run |-> TRUE, streak |-> count, has_last |-> has_last, last_played |-> last_played]

\* calculate_streak(db, patient_id, today)
calculate_streak(dates, on) ==
    IF dates = {} THEN StreakResult(0, FALSE, 0)
    ELSE LET played_dates == Reverse(SortedSeq(dates))
             last_played == played_dates[1]
         IN  IF last_played < on - 1 THEN StreakResult(0, TRUE, last_played)
             ELSE StreakResult(
                     CountStreak(played_dates, 1,
                                 IF last_played = on THEN on ELSE on - 1, 0),
                     TRUE, last_played)

StreakInit ==
    /\ today \in PlayDays \ {0}
    /\ stroke_bites = {}
    /\ pc = [r \in Requests |-> "start"]
    /\ local = [r \in Requests |-> NoLocal]
    /\ response = [r \in Requests |-> NoResponse]
    /\ InsightsIdle /\ PhaseIdle /\ AnswersIdle /\ ColorsIdle /\ MedicineIdle
    /\ SearchIdle /\ PapersIdle /\ SaveIdle /\ MoodIdle
    /\ game_results \in SUBSET { d \in PlayDays : d <= today + 1 }
    /\ streak = NoStreak

\* get_game_stats, line 192: calculate_streak(db, profile.id, today)
CalculateStreak ==
    /\ ~streak.run
    /\ streak' = calculate_streak(game_results, today)
    /\ UNCHANGED << game_results, search, paper_store, paper_run, save, mood_entries,
                    mood_req, bite_vars, insight_vars, phase_vars, answer_vars,
                    color_vars, medicine_vars >>

SpecStreak == StreakInit /\ [][CalculateStreak]_vars

\* the length of the longest run of consecutive played days that ends at day
RunEndingAt(day) ==
    CHOOSE n \in 0..(MaxPlayDay + 1) :
        /\ \A k \in 0..(n - 1) : (day - k) \in game_results
        /\ (day - n) \notin game_results

\* the most recent played date
LatestPlay == CHOOSE d \in game_results : \A e \in game_results : e <= d

\* C30: for every set of played dates and every today, calculate_streak
\* returns the length of the longest run of consecutive played days ending
\* at today when the patient played today, or ending at yesterday when the
\* latest play was yesterday, and 0 when the latest play is older or there
\* is none; last_played is the most recent played date, or none.
C30_StreakIsRunEndingTodayOrYesterday ==
    streak.run =>
        /\ today \in game_results => streak.streak = RunEndingAt(today)
        /\ (game_results # {} /\ LatestPlay = today - 1)
              => streak.streak = RunEndingAt(today - 1)
        /\ (game_results = {} \/ LatestPlay < today - 1) => streak.streak = 0
        /\ streak.has_last = (game_results # {})
        /\ game_results # {} => streak.last_played = LatestPlay

====
